---- MODULE Spec2Model ----
(***************************************************************************)
(* The tool-calling orchestration loops of the example chatbots:           *)
(*   L3     src/L3-chatbot-example-with-pip/L3.openai.py   (local tools)   *)
(*   L5     src/L5-mcp-client/mcp_chatbot.py               (one provider)  *)
(*   L6     src/L6-multi-client-server/mcp_chatbot.py      (n providers)   *)
(*   Agent  src/alstom-from-claude/ai-azure-client.py      (kept history)  *)
(* and the REST wrapper of the Agent, which serves overlapping requests.   *)
(* The LLM and the tool providers are the environment: their answers are   *)
(* drawn from small sets.  Python text is a TLA+ string, so joining and    *)
(* formatting are computed, not assumed.                                   *)
(***************************************************************************)
EXTENDS Integers, Sequences, FiniteSets, TLC

VARIABLES
    variant,               \* which program runs: "L3", "L5", "L6", "Agent"
    pc,                    \* position of the control flow
    messages,              \* process_query's local transcript (L3, L5, L6)
    conversation_history,  \* TrainProductionAgent.conversation_history
    request,               \* the completion request in flight, or NoRequest
    response,              \* the message of the LLM response being handled
    i,                     \* index of the tool call the for-loop is at
    outcome,               \* how the last call of process_query / chat ended
    stdout,                \* what was printed since the last query was read
    nextId,                \* next tool-call id the LLM assigns
    turns,                 \* queries read so far
    sessions,              \* L6: MCP_ChatBot.sessions
    available_tools,       \* tool names sent to the LLM, in list order
    tool_to_session,       \* L6: MCP_ChatBot.tool_to_session
    origins,               \* L6: for each entry of available_tools, the session
                           \* whose list_tools answer it was built from
    exit_stack,            \* L6: contexts entered on the AsyncExitStack
    connected,             \* L6: servers connect_to_servers has gone through
    turnFirstId,           \* the value of nextId when the current query began
    opened,                \* provider contexts opened so far, in order
    closed,                \* provider contexts closed so far, in order
    rest,                  \* the REST wrapper's requests in progress (SpecRest)
    log,                   \* what the current call requested and invoked
    ex,                    \* the executor called on its own (SpecExec)
    twin,                  \* L5 and L6 run on the same inputs (SpecPair)
    loop,                  \* chat_loop on its own (SpecLoop)
    tool_server,           \* the train production tool server (SpecServer)
    papers_dir             \* L3: the topic files under PAPER_DIR (SpecPapers)

vars == <<variant, pc, messages, conversation_history, request, response, i,
          outcome, stdout, nextId, turns, sessions, available_tools,
          tool_to_session, exit_stack, connected, turnFirstId, opened,
          closed, rest, log, origins, ex, twin, loop,
          tool_server, papers_dir>>

orchVars == <<variant, pc, messages, conversation_history, request, response,
              i, outcome, stdout, nextId, turns>>

registryVars == <<sessions, available_tools, tool_to_session, origins,
                  exit_stack, connected>>

resourceVars == <<opened, closed>>

\* the variables of the specifications that run one part on its own
auxVars == <<twin, loop, tool_server, papers_dir>>

sideVars == <<turnFirstId, resourceVars, rest, log, ex, auxVars>>

----------------------------------------------------------------------------
(* Bounds of the model *)

\* tool-call ids the LLM hands out in one run
MaxIds == 2
\* tool-call requests in one LLM response
MaxCalls == 2
\* queries read in one run
MaxTurns == 2

----------------------------------------------------------------------------
(* Python values *)

\* None, where the code may hold a text
PyNone == "<None>"

\* the id slot of a message that has none
NoId == 0

PyStr(s) == [type |-> "str", val |-> s, items |-> <<>>]
PyInt(s) == [type |-> "int", val |-> s, items |-> <<>>]
PyNoneValue == [type |-> "NoneType", val |-> "None", items |-> <<>>]
PyList(xs) == [type |-> "list", val |-> "", items |-> xs]
\* a dict of texts: items are [key, value] pairs
PyDict(kvs) == [type |-> "dict", val |-> "", items |-> kvs]

\* str.join(sep, xs) for a sequence of texts
RECURSIVE Join(_, _)
Join(sep, xs) ==
    IF Len(xs) = 0 THEN ""
    ELSE IF Len(xs) = 1 THEN xs[1]
    ELSE xs[1] \o sep \o Join(sep, Tail(xs))

\* x or "" (L3), for a text or None
OrEmpty(x) == IF x = PyNone \/ x = "" THEN "" ELSE x

----------------------------------------------------------------------------
(* The environment's vocabulary *)

Variants == {"L3", "L5", "L6", "Agent"}

\* raw_arguments the LLM may send with a tool call
ArgsObject == "{\"topic\": \"x\"}"
ArgsBroken == "{\"topic\": "
RawArgs == {ArgsObject, ArgsBroken}

\* a tool name no variant registers
NoSuchTool == "no_such_tool"

\* the two local tools of L3, which the research server of L5/L6 also serves
LocalTools == <<"search_papers", "extract_info">>

\* two of the tools the train production server publishes
AgentTools == <<"get_project_overview", "get_project_phases">>

\* names the LLM may ask for
RequestNames(v) ==
    IF v = "Agent" THEN {AgentTools[1], NoSuchTool}
    ELSE IF v = "L5" THEN {LocalTools[1], NoSuchTool}
    ELSE IF v = "L6" THEN {LocalTools[1], LocalTools[2]}
    ELSE {LocalTools[1], LocalTools[2], NoSuchTool}

\* texts of the LLM
Thinking == "let me look that up"
Answers == {"answer A", "answer B"}
\* the text the user types as the t-th query of a run
QueryText(t) == "query " \o ToString(t)

\* json.loads(s): the parsed mapping, or JSONDecodeError
json_loads(s) ==
    IF s = ArgsObject
    THEN [raised |-> FALSE, exc |-> "", value |-> [topic |-> "x"]]
    ELSE [raised |-> TRUE, exc |-> "JSONDecodeError", value |-> [topic |-> ""]]

----------------------------------------------------------------------------
(* L3: the local tools and execute_tool *)

\* mapping_tool_function, as the set of its keys
mapping_tool_function == {LocalTools[1], LocalTools[2]}

Placeholder == "The operation completed but didn't return any results."

NotFound == "There's no saved information related to paper 1."

Raised(e) == [raised |-> TRUE, exc |-> e, text |-> ""]
Text(t) == [raised |-> FALSE, exc |-> "", text |-> t]

HandlerRaised == [raised |-> TRUE, value |-> PyNoneValue]
Returned(v) == [raised |-> FALSE, value |-> v]

\* what search_papers and extract_info can answer
HandlerOutcomes(name) ==
    IF name = "search_papers"
    THEN {HandlerRaised,
          Returned(PyList(<<>>)),
          Returned(PyList(<<PyStr("2401.1v1"), PyStr("2402.2v1")>>))}
    ELSE {HandlerRaised, Returned(PyStr(NotFound))}

\* json.dumps(d, indent=2) of a flat dict of texts
json_dumps(d) ==
    IF Len(d.items) = 0 THEN "{}"
    ELSE "{\n"
         \o Join(",\n", [k \in 1..Len(d.items) |->
                "  \"" \o d.items[k].key \o "\": \"" \o d.items[k].value \o "\""])
         \o "\n}"

\* execute_tool(tool_name, tool_args), `out` being what the handler does
\* when it is called
\* mutant of execute_tool: the results of earlier calls are kept in a
\* module-level list and joined into the text
execute_tool_accumulating(tool_name, tool_args, out) ==
    IF tool_name \notin mapping_tool_function THEN Raised("KeyError")
    ELSE IF out.raised THEN Raised("HandlerError")
    ELSE Text(Join(", ", [k \in 1..Len(ex.results) |-> ex.results[k].text]
                         \o <<out.value.val>>))

execute_tool(tool_name, tool_args, out) ==
    IF tool_name \notin mapping_tool_function THEN Raised("KeyError")
    ELSE IF out.raised THEN Raised("HandlerError")
    ELSE LET result == out.value IN
         IF result.type = "NoneType" THEN Text(Placeholder)
         ELSE IF result.type = "list"
              THEN IF \A k \in 1..Len(result.items) : result.items[k].type = "str"
                   THEN Text(Join(", ", [k \in 1..Len(result.items) |->
                                            result.items[k].val]))
                   ELSE Raised("TypeError")
         ELSE IF result.type = "dict" THEN Text(json_dumps(result))
         ELSE Text(result.val)

----------------------------------------------------------------------------
(* L5, L6, Agent: results of session.call_tool *)

TextContent(t) == [type |-> "text", hasText |-> TRUE, text |-> t]
ImageContent == [type |-> "image", hasText |-> FALSE, text |-> ""]

CallRaised == [raised |-> TRUE, content |-> <<>>]
CallResult(c) == [raised |-> FALSE, content |-> c]

\* what a provider can answer to call_tool
CallOutcomes ==
    {CallRaised, CallResult(<<>>),
     CallResult(<<TextContent("r1"), ImageContent, TextContent("r2")>>)}

\* repr of one content item
ItemRepr(item) ==
    IF item.hasText THEN "TextContent(type='text', text='" \o item.text \o "')"
    ELSE "ImageContent(type='image')"

\* str(result.content) (L5, L6)
StrContent(content) ==
    "[" \o Join(", ", [k \in 1..Len(content) |-> ItemRepr(content[k])]) \o "]"

RECURSIVE SelectTexts(_)
SelectTexts(content) ==
    IF Len(content) = 0 THEN <<>>
    ELSE IF Head(content).hasText
         THEN <<Head(content).text>> \o SelectTexts(Tail(content))
         ELSE SelectTexts(Tail(content))

NoContent == "Tool executed but returned no content"

\* mutant of _execute_tool: no try/except around the call
_execute_tool_unguarded(tool_name, tool_args, out) ==
    IF out.raised
    THEN Raised("McpError")
    ELSE IF Len(out.content) > 0
         THEN Text(Join("\n", SelectTexts(out.content)))
         ELSE Text(NoContent)

\* TrainProductionAgent._execute_tool(tool_name, tool_args), `out` being
\* what mcp_session.call_tool does
_execute_tool(tool_name, tool_args, out) ==
    IF out.raised
    THEN Text("Error executing tool " \o tool_name \o ": call failed")
    ELSE IF Len(out.content) > 0
         THEN Text(Join("\n", SelectTexts(out.content)))
         ELSE Text(NoContent)


----------------------------------------------------------------------------
(* Messages, requests, responses *)

UserMsg(q) ==
    [role |-> "user", content |-> q, tool_calls |-> <<>>, tool_call_id |-> NoId]

SystemMsg ==
    [role |-> "system", content |-> "You are an AI assistant ...",
     tool_calls |-> <<>>, tool_call_id |-> NoId]

\* the assistant message that requested tools
AssistantToolMsg(content, tool_calls) ==
    [role |-> "assistant", content |-> content, tool_calls |-> tool_calls,
     tool_call_id |-> NoId]

\* mutant of AssistantMsg: the content is not kept
AssistantMsgBlank(content) ==
    [role |-> "assistant", content |-> "", tool_calls |-> <<>>,
     tool_call_id |-> NoId]

\* the assistant message holding a final text (Agent)
AssistantMsg(content) ==
    [role |-> "assistant", content |-> content, tool_calls |-> <<>>,
     tool_call_id |-> NoId]

\* mutant of ToolMsg: the id of the following request is written
ToolMsgNextId(id, content) ==
    [role |-> "tool", content |-> content, tool_calls |-> <<>>,
     tool_call_id |-> id + 1]

ToolMsg(id, content) ==
    [role |-> "tool", content |-> content, tool_calls |-> <<>>,
     tool_call_id |-> id]

NoRequest == [messages |-> <<>>, tools |-> <<>>, offers_tools |-> FALSE]
NoResponse == [content |-> PyNone, tool_calls |-> <<>>]
NoOutcome == [kind |-> "none", value |-> PyNone]

\* chat.completions.create(messages=..., tools=...)
CompletionRequest(msgs, tools) ==
    [messages |-> msgs, tools |-> tools, offers_tools |-> TRUE]

\* chat.completions.create(messages=...) with no tools argument
CompletionRequestNoTools(msgs) ==
    [messages |-> msgs, tools |-> <<>>, offers_tools |-> FALSE]

\* the tool-call lists of n requests with ids from `first` on
ToolCallLists(v, first, n) ==
    { [k \in 1..n |-> [id |-> first + k - 1, name |-> f[k].name,
                        arguments |-> f[k].arguments]] :
        f \in [1..n -> [name : RequestNames(v), arguments : RawArgs]] }

\* the messages the LLM may answer a request with: a final text, or, when
\* the request offered tools and ids are left, tool-call requests
Responses(v, req, first) ==
    { [content |-> a, tool_calls |-> <<>>] : a \in Answers }
    \cup
    IF req.offers_tools /\ Len(req.tools) > 0
    THEN UNION { { [content |-> c, tool_calls |-> tcs] :
                     c \in {PyNone, Thinking}, tcs \in ToolCallLists(v, first, n) } :
                 n \in { m \in 1..MaxCalls : first + m - 1 <= MaxIds } }
    ELSE {}

\* the transcript of the running program
Transcript == IF variant = "Agent" THEN conversation_history ELSE messages


----------------------------------------------------------------------------
(* L6: connecting the providers *)

\* servers of server_config.json that connect_to_servers goes through
MaxServers == 2

\* what a provider may answer to list_tools
PublishedLists ==
    {<<"search_papers">>, <<"search_papers", "extract_info">>}

\* how far connect_to_server gets before something raises
ConnectStages == {"transport", "initialize", "list_tools", "ok"}

\* mutant of Register: only the first listed tool gets a routing entry
RegisterFirstOnly(map, tools, session) ==
    IF Len(tools) = 0 THEN map
    ELSE [n \in DOMAIN map \cup {Head(tools)} |->
             IF n = Head(tools) THEN session ELSE map[n]]

RECURSIVE Register(_, _, _)
\* the for-loop over response.tools: tool_to_session[tool.name] = session
Register(map, tools, session) ==
    IF Len(tools) = 0 THEN map
    ELSE Register([n \in DOMAIN map \cup {Head(tools)} |->
                      IF n = Head(tools) THEN session ELSE map[n]],
                  Tail(tools), session)

\* the two contexts a provider connection consists of: the stdio transport
\* and the client session on top of it
ProviderContexts(server) ==
    <<[kind |-> "stdio_client", server |-> server],
      [kind |-> "ClientSession", server |-> server]>>

\* print(f"Failed to connect to {server_name}: {e}")
FailedToConnect(server) == "Failed to connect to server " \o ToString(server)

\* mutant of ConnectFailure: the handler prints and raises again
ConnectFailureRaisedAgain(server) ==
    [raised |-> TRUE, printed |-> <<FailedToConnect(server)>>]

\* the except clause of connect_to_server: the failure is printed and
\* connect_to_server returns
ConnectFailure(server) ==
    [raised |-> FALSE, printed |-> <<FailedToConnect(server)>>]

NoConnectFailure == [raised |-> FALSE, printed |-> <<>>]

\* mutant of ToolsAfterConnect: the first listed tool is registered although
\* the listing failed
ToolsAfterConnectPartial(stage, listed, tools) ==
    IF stage = "ok" THEN listed \o tools
    ELSE IF stage = "list_tools" THEN listed \o SubSeq(tools, 1, 1)
    ELSE listed

\* available_tools after connect_to_server got as far as stage
ToolsAfterConnect(stage, listed, tools) ==
    IF stage = "ok" THEN listed \o tools ELSE listed

\* connect_to_server(server_name, server_config), the exception handler
\* included
ConnectToServer ==
    /\ variant = "L6"
    /\ pc = "connect"
    /\ connected < MaxServers
    /\ \E stage \in ConnectStages, tools \in PublishedLists :
         LET session == connected + 1
             handled == IF stage = "ok" THEN NoConnectFailure
                        ELSE ConnectFailure(session) IN
         /\ exit_stack' =
              IF stage = "transport" THEN exit_stack
              ELSE exit_stack \o ProviderContexts(session)
         /\ opened' =
              IF stage = "transport" THEN opened
              ELSE opened \o ProviderContexts(session)
         /\ sessions' =
              IF stage \in {"list_tools", "ok"} THEN Append(sessions, session)
              ELSE sessions
         /\ tool_to_session' =
              IF stage = "ok" THEN Register(tool_to_session, tools, session)
              ELSE tool_to_session
         /\ available_tools' = ToolsAfterConnect(stage, available_tools, tools)
         /\ origins' = ToolsAfterConnect(stage, origins,
                                         [k \in 1..Len(tools) |-> session])
         /\ stdout' = stdout \o handled.printed
         /\ pc' = IF handled.raised THEN "cleanup" ELSE pc
         /\ outcome' = IF handled.raised
                       THEN [kind |-> "raised", value |-> "ConnectError"]
                       ELSE outcome
    /\ connected' = connected + 1
    /\ UNCHANGED <<variant, messages, conversation_history, request, response,
                   i, nextId, turns, turnFirstId, closed, rest, log, ex,
                   auxVars>>

\* connect_to_servers cannot read server_config.json: it prints and raises,
\* and main goes to its finally clause
ConfigLoadFails ==
    /\ variant = "L6"
    /\ pc = "connect"
    /\ connected = 0
    /\ stdout' = Append(stdout, "Error loading server configuration")
    /\ outcome' = [kind |-> "raised", value |-> "ConfigError"]
    /\ pc' = "cleanup"
    /\ UNCHANGED <<variant, messages, conversation_history, request, response,
                   i, nextId, turns, registryVars, sideVars>>

\* connect_to_servers has gone through the configured servers; chat_loop
\* starts
StartChatLoop ==
    /\ variant = "L6"
    /\ pc = "connect"
    /\ pc' = "idle"
    /\ UNCHANGED <<variant, messages, conversation_history, request, response,
                   i, outcome, stdout, nextId, turns, registryVars, sideVars>>

----------------------------------------------------------------------------
(* The orchestration loop *)

\* nothing requested, nothing invoked, no call of chat() has failed
NoLog == [completions |-> 0, invoked |-> <<>>, failed |-> 0]

\* L3 runs the handlers of mapping_tool_function itself: no session
LocalHandlers == 0

\* the session of L5 (self.session) and of the Agent (self.mcp_session)
OnlySession == 1

\* the session an invocation of tool_name goes to
\*   L6: session = self.tool_to_session[tool_name]
SessionFor(v, tool_name) ==
    IF v = "L6" THEN tool_to_session[tool_name]
    ELSE IF v = "L3" THEN LocalHandlers
    ELSE OnlySession

\* mutant of NextIndex: a tool call is invoked again
NextIndexSame(idx) == idx

\* the for-loop goes on to the next tool call
NextIndex(idx) == idx + 1

\* mutant of tool_call: the for-loop goes through the tool calls backwards
tool_call_reversed ==
    response.tool_calls[Len(response.tool_calls) + 1 - i]

\* the current tool call of the for-loop
tool_call == response.tool_calls[i]

\* mutant of MoreCalls: the next completion is requested inside the
\* for-loop, after the first tool result
MoreCallsNever(idx, tool_calls) == FALSE

\* the for-loop over the tool calls has calls left after the idx-th
MoreCalls(idx, tool_calls) == idx < Len(tool_calls)

\* mutant of ToolsAfterRequest: the converted descriptors are appended to
\* the list they were built from
ToolsAfterRequestConverted(v, tools) ==
    IF v = "Agent" THEN tools \o tools ELSE tools

\* what building a completion request leaves in self.available_tools: the
\* list is read (L3, L5, L6: passed as it is; Agent: converted into a new
\* list by _convert_tools_to_openai_format)
ToolsAfterRequest(v, tools) == tools

\* mutant of HistoryWithQuery: chat() starts from the user message alone
HistoryWithQueryFresh(old, query) == <<UserMsg(query)>>

\* self.conversation_history.append({"role": "user", ...})
HistoryWithQuery(old, query) == Append(old, UserMsg(query))

\* mutant of WithToolResult: the tool message is put in front
WithToolResultFirst(transcript, m) == <<m>> \o transcript

\* messages.append({"role": "tool", ...})
WithToolResult(transcript, m) == Append(transcript, m)

\* mutant of InitialMessages: the transcript outlives the call
InitialMessagesKept(old, query) == Append(old, UserMsg(query))

\* messages = [{'role': 'user', 'content': query}]
InitialMessages(old, query) == <<UserMsg(query)>>

\* the arguments text handed to json.loads
ArgumentsToParse(v, tc) ==
    IF v = "L3" /\ tc.arguments = "" THEN "{}" ELSE tc.arguments

\* the content of the assistant message that carries the tool calls
AssistantContent(v, content) == IF v = "L3" THEN OrEmpty(content) ELSE content

\* mutant of ReturnValue: the final text is printed and never returned
ReturnValueNothing(v, content) == PyNone

\* what process_query / chat gives back on a tool-call-free response
ReturnValue(v, content) == IF v \in {"L5", "L6"} THEN PyNone ELSE content

\* session.call_tool awaited in process_query (L5, L6): a failure propagates
call_tool(tool_name, tool_args, out) ==
    IF out.raised THEN Raised("McpError") ELSE Text(StrContent(out.content))

\* mutant of NextRequest: the loop offers tools in its first request only
NextRequestNoTools(v, transcript) ==
    IF v = "Agent" THEN CompletionRequestNoTools(<<SystemMsg>> \o transcript)
    ELSE CompletionRequestNoTools(transcript)

\* the completion request issued after the tool results were appended
NextRequest(v, transcript) ==
    IF v = "Agent" THEN CompletionRequestNoTools(<<SystemMsg>> \o transcript)
    ELSE CompletionRequest(transcript, available_tools)

\* print(f"\nError: {str(e)}") of the chat loop's exception handler
ErrorLine(e) == "Error: " \o e

\* mutant of ChatLoopHandler: the handler passes
ChatLoopHandlerSilent(out, e) == out

\* the except clause of chat_loop / interactive_chat around the call
ChatLoopHandler(out, e) == Append(out, ErrorLine(e))

\* the call ends with an exception, which the chat loop catches: the loop
\* goes on to read the next query
Abort(e) ==
    /\ pc' = "idle"
    /\ outcome' = [kind |-> "raised", value |-> e]
    /\ stdout' = ChatLoopHandler(stdout, e)
    /\ log' = [log EXCEPT !.failed = IF variant = "Agent" THEN @ + 1 ELSE @]

\* process_query(query) / chat(user_message) up to its first completion
\* request
ProcessQuery ==
    /\ pc = "idle"
    /\ turns < MaxTurns
    /\ LET query == QueryText(turns + 1) IN
         IF variant = "Agent"
         THEN /\ conversation_history' =
                     HistoryWithQuery(conversation_history, query)
              /\ request' = CompletionRequest(<<SystemMsg>> \o conversation_history',
                                              available_tools)
              /\ UNCHANGED messages
         ELSE /\ messages' = InitialMessages(messages, query)
              /\ request' = CompletionRequest(messages', available_tools)
              /\ UNCHANGED conversation_history
    /\ pc' = "llm"
    /\ response' = NoResponse
    /\ i' = 0
    /\ outcome' = NoOutcome
    /\ stdout' = <<>>
    /\ turns' = turns + 1
    /\ turnFirstId' = nextId
    /\ log' = [log EXCEPT !.completions = 1, !.invoked = <<>>]
    /\ available_tools' = ToolsAfterRequest(variant, available_tools)
    /\ UNCHANGED <<variant, nextId, sessions, tool_to_session, origins,
                   exit_stack, connected, resourceVars, rest, ex,
                   auxVars>>

\* the completion request raises
LLMRaises ==
    /\ pc \in {"llm", "final"}
    /\ Abort("LLMRequestFailure")
    /\ UNCHANGED <<variant, messages, conversation_history, request, response,
                   i, nextId, turns, registryVars, turnFirstId, resourceVars,
                   rest, ex,
                   auxVars>>

\* the LLM answers the request of the loop
LLMResponds ==
    /\ pc = "llm"
    /\ \E r \in Responses(variant, request, nextId) :
         /\ response' = r
         /\ nextId' = nextId + Len(r.tool_calls)
         /\ stdout' = IF variant \in {"L5", "L6"}
                         \/ (variant = "L3" /\ r.tool_calls = <<>>)
                      THEN Append(stdout, r.content) ELSE stdout
         /\ IF r.tool_calls # <<>>
            THEN LET m == AssistantToolMsg(AssistantContent(variant, r.content),
                                           r.tool_calls) IN
                 /\ IF variant = "Agent"
                    THEN /\ conversation_history' = Append(conversation_history, m)
                         /\ UNCHANGED messages
                    ELSE /\ messages' = Append(messages, m)
                         /\ UNCHANGED conversation_history
                 /\ i' = 1
                 /\ pc' = "exec"
                 /\ UNCHANGED outcome
            ELSE /\ IF variant = "Agent"
                    THEN conversation_history' =
                             Append(conversation_history, AssistantMsg(r.content))
                    ELSE UNCHANGED conversation_history
                 /\ pc' = "idle"
                 /\ outcome' = [kind |-> "returned",
                                value |-> ReturnValue(variant, r.content)]
                 /\ UNCHANGED <<messages, i>>
    /\ UNCHANGED <<variant, request, turns, registryVars, sideVars>>

\* Agent: the LLM answers the request issued after the tools ran
FinalResponds ==
    /\ pc = "final"
    /\ \E r \in Responses(variant, request, nextId) :
         /\ response' = r
         /\ conversation_history' =
                Append(conversation_history, AssistantMsg(r.content))
         /\ outcome' = [kind |-> "returned",
                        value |-> ReturnValue(variant, r.content)]
    /\ pc' = "idle"
    /\ UNCHANGED <<variant, messages, request, i, stdout, nextId, turns,
                   registryVars, sideVars>>

\* the for-loop body up to the tool invocation: json.loads, the lookup of
\* the tool, the start of the call
InvokeTool ==
    /\ pc = "exec"
    /\ LET tc == tool_call
           parsed == json_loads(ArgumentsToParse(variant, tc)) IN
       IF parsed.raised THEN Abort(parsed.exc)
       ELSE IF variant = "L3"
               /\ execute_tool(tc.name, parsed.value, HandlerRaised).exc = "KeyError"
            THEN Abort("KeyError")
       ELSE IF variant = "L6" /\ tc.name \notin DOMAIN tool_to_session
            THEN Abort("KeyError")
       ELSE /\ pc' = "call"
            /\ log' = [log EXCEPT !.invoked =
                         Append(@, [id |-> tc.id, name |-> tc.name,
                                    session |-> SessionFor(variant, tc.name)])]
            /\ UNCHANGED <<outcome, stdout>>
    /\ UNCHANGED <<variant, messages, conversation_history, request, response,
                   i, nextId, turns, registryVars, turnFirstId, resourceVars,
                   rest, ex,
                   auxVars>>

\* the tool invocation ends; its result is appended, and after the last
\* tool call of the response the next completion is requested
ToolReturns ==
    /\ pc = "call"
    /\ LET tc == tool_call
           args == json_loads(ArgumentsToParse(variant, tc)).value IN
       \E out \in IF variant = "L3" THEN HandlerOutcomes(tc.name) ELSE CallOutcomes :
         LET res == IF variant = "L3" THEN execute_tool(tc.name, args, out)
                    ELSE IF variant = "Agent" THEN _execute_tool(tc.name, args, out)
                    ELSE call_tool(tc.name, args, out)
             t == WithToolResult(Transcript, ToolMsg(tc.id, res.text)) IN
         IF res.raised
         THEN /\ Abort(res.exc)
              /\ UNCHANGED <<messages, conversation_history, request, i>>
         ELSE /\ IF variant = "Agent"
                 THEN conversation_history' = t /\ UNCHANGED messages
                 ELSE messages' = t /\ UNCHANGED conversation_history
              /\ IF MoreCalls(i, response.tool_calls)
                 THEN /\ i' = NextIndex(i)
                      /\ pc' = "exec"
                      /\ UNCHANGED <<request, log>>
                 ELSE /\ request' = NextRequest(variant, t)
                      /\ log' = [log EXCEPT !.completions = @ + 1]
                      /\ pc' = IF variant = "Agent" THEN "final" ELSE "llm"
                      /\ UNCHANGED i
              /\ UNCHANGED <<outcome, stdout>>
    /\ UNCHANGED <<variant, response, nextId, turns, registryVars, turnFirstId,
                   resourceVars, rest, ex,
                   auxVars>>

----------------------------------------------------------------------------
(* The end of the program *)

RECURSIVE Reverse(_)
Reverse(seq) ==
    IF Len(seq) = 0 THEN <<>> ELSE Append(Reverse(Tail(seq)), Head(seq))

\* the contexts closed when the program ends, in the order of closing:
\*   L6     cleanup: exit_stack.aclose() unwinds the stack
\*   L5     the two async with blocks of connect_to_server_and_run are left
\*   Agent  cleanup: mcp_session.__aexit__(None, None, None)
\*   L3     has no provider
cleanup(v, stack, ctxs) ==
    IF v = "L6" THEN Reverse(stack)
    ELSE IF v = "L5" THEN Reverse(ctxs)
    ELSE IF v = "Agent" THEN SelectSeq(ctxs, LAMBDA c : c.kind = "ClientSession")
    ELSE <<>>

\* the chat loop reads 'quit' (interactive_chat: 'exit', 'quit', 'bye', or
\* is interrupted) and breaks; nothing of the last call of process_query is
\* left
Quit ==
    /\ pc = "idle"
    /\ pc' = "cleanup"
    /\ messages' = <<>>
    /\ request' = NoRequest
    /\ response' = NoResponse
    /\ i' = 0
    /\ outcome' = NoOutcome
    /\ stdout' = <<>>
    /\ log' = [log EXCEPT !.completions = 0, !.invoked = <<>>]
    /\ UNCHANGED <<variant, conversation_history, nextId, turns, registryVars,
                   turnFirstId, resourceVars, rest, ex,
                   auxVars>>

\* what runs after the chat loop, or in main's finally clause
Cleanup ==
    /\ pc = "cleanup"
    /\ closed' = closed \o cleanup(variant, exit_stack, opened)
    /\ exit_stack' = <<>>
    /\ pc' = "closed"
    /\ UNCHANGED <<variant, messages, conversation_history, request, response,
                   i, outcome, stdout, nextId, turns, sessions, available_tools,
                   tool_to_session, origins, connected, turnFirstId, opened,
                   rest, log, ex,
                   auxVars>>

----------------------------------------------------------------------------
(* The specification of the chatbots *)

NoExec == [who |-> "none", results |-> <<>>]

\* the parts that run on their own are not running
AuxIdle ==
    twin = <<>> /\ loop = <<>> /\ tool_server = <<>> /\ papers_dir = <<>>

Init ==
    /\ variant \in Variants
    /\ pc = IF variant = "L6" THEN "connect" ELSE "idle"
    /\ messages = <<>>
    /\ conversation_history = <<>>
    /\ request = NoRequest
    /\ response = NoResponse
    /\ i = 0
    /\ outcome = NoOutcome
    /\ stdout = <<>>
    /\ nextId = 1
    /\ turns = 0
    /\ sessions = <<>>
    /\ available_tools = IF variant = "L6" THEN <<>>
                         ELSE IF variant = "Agent" THEN AgentTools
                         ELSE LocalTools
    /\ tool_to_session = <<>>
    /\ origins = <<>>
    /\ exit_stack = <<>>
    /\ connected = 0
    /\ turnFirstId = 1
    /\ opened = IF variant \in {"L5", "Agent"} THEN ProviderContexts(1) ELSE <<>>
    /\ closed = <<>>
    /\ log = NoLog
    /\ rest = <<>>
    /\ ex = NoExec
    /\ AuxIdle

Next ==
    \/ ConnectToServer
    \/ ConfigLoadFails
    \/ StartChatLoop
    \/ Quit
    \/ Cleanup
    \/ ProcessQuery
    \/ LLMRaises
    \/ LLMResponds
    \/ FinalResponds
    \/ InvokeTool
    \/ ToolReturns

Spec == Init /\ [][Next]_vars

\* every completion request and every tool call comes back (with an answer
\* or an exception), and the loop takes its next step
SpecLive ==
    /\ Spec
    /\ WF_vars(LLMResponds \/ LLMRaises)
    /\ WF_vars(FinalResponds)
    /\ WF_vars(InvokeTool)
    /\ WF_vars(ToolReturns)


----------------------------------------------------------------------------
(* The executors called on their own *)

\* calls of the executor with the same inputs
MaxExec == 2

\* values a handler registered in mapping_tool_function may return
ExecValues ==
    {PyNoneValue, PyStr("text"), PyInt("7"),
     PyList(<<>>), PyList(<<PyStr("a")>>), PyList(<<PyStr("a"), PyStr("b")>>),
     PyList(<<PyInt("1"), PyInt("2")>>),
     PyDict(<<>>),
     PyDict(<<[key |-> "title", value |-> "T"], [key |-> "pdf_url", value |-> "U"]>>)}

ExecArgs == {[topic |-> "x"], [topic |-> "y"]}

\* what call_tool may answer when the executor is called on its own
ExecCallOutcomes ==
    CallOutcomes \cup {CallResult(<<ImageContent>>), CallResult(<<TextContent("r1")>>)}

InitExec ==
    /\ variant \in {"L3", "Agent"}
    /\ pc = "executor"
    /\ messages = <<>>
    /\ conversation_history = <<>>
    /\ request = NoRequest
    /\ response = NoResponse
    /\ i = 0
    /\ outcome = NoOutcome
    /\ stdout = <<>>
    /\ nextId = 1
    /\ turns = 0
    /\ sessions = <<>>
    /\ available_tools = IF variant = "Agent" THEN AgentTools ELSE LocalTools
    /\ tool_to_session = <<>>
    /\ origins = <<>>
    /\ exit_stack = <<>>
    /\ connected = 0
    /\ turnFirstId = 1
    /\ opened = <<>>
    /\ closed = <<>>
    /\ log = NoLog
    /\ rest = <<>>
    /\ \E name \in RequestNames(variant), args \in ExecArgs :
         \E out \in IF variant = "L3"
                    THEN {HandlerRaised} \cup {Returned(v) : v \in ExecValues}
                    ELSE ExecCallOutcomes :
           ex = [who |-> variant, tool_name |-> name, tool_args |-> args,
                 out |-> out, results |-> <<>>]
    /\ AuxIdle

\* one call of execute_tool (L3) or _execute_tool (Agent) against a tool
\* that answers the same every time
ExecuteTool ==
    /\ pc = "executor"
    /\ Len(ex.results) < MaxExec
    /\ ex' = [ex EXCEPT !.results =
                Append(@, IF ex.who = "L3"
                          THEN execute_tool(ex.tool_name, ex.tool_args, ex.out)
                          ELSE _execute_tool(ex.tool_name, ex.tool_args, ex.out))]
    /\ UNCHANGED <<orchVars, registryVars, turnFirstId, resourceVars, rest, log,
                   auxVars>>

NextExec == ExecuteTool

SpecExec == InitExec /\ [][NextExec]_vars

----------------------------------------------------------------------------
(* The REST wrapper: overlapping requests on the one global_agent *)

\* the requests the wrapper serves at the same time
RestRequests == {1, 2}

\* the answer of POST /query and POST /complex-query to what chat() did:
\* QueryResponse(response=...) or HTTPException(status_code=500, detail=str(e))
QueryEndpoint(out) ==
    IF out.kind = "raised" THEN [status_code |-> 500, body |-> out.value]
    ELSE [status_code |-> 200, body |-> out.value]

NoAnswer == [status_code |-> 0, body |-> PyNone]

\* a request that has not arrived yet
NoHandler ==
    [pc |-> "none", request |-> NoRequest, response |-> NoResponse, i |-> 0,
     answer |-> NoAnswer]

\* the handler of request r ends with what chat() returned or raised
RestEnds(r, out) ==
    [rest[r] EXCEPT !.pc = "done", !.answer = QueryEndpoint(out)]

\* json.loads of the k-th tool call of response m, then the await of
\* _execute_tool: the handler of r is suspended in the call, or chat() raises
RestStartsCall(h, r, m, k) ==
    LET parsed == json_loads(ArgumentsToParse("Agent", m.tool_calls[k])) IN
    IF parsed.raised
    THEN [h EXCEPT !.pc = "done",
                   !.answer = QueryEndpoint([kind |-> "raised",
                                             value |-> parsed.exc])]
    ELSE [h EXCEPT !.pc = "call", !.i = k]

\* process_query(request): chat() up to the await of the first completion
RestQuery(r) ==
    /\ pc = "rest"
    /\ rest[r].pc = "none"
    /\ conversation_history' =
           HistoryWithQuery(conversation_history, QueryText(r))
    /\ rest' = [rest EXCEPT ![r] =
           [@ EXCEPT !.pc = "llm",
                     !.request = CompletionRequest(
                         <<SystemMsg>> \o conversation_history',
                         available_tools)]]
    /\ UNCHANGED <<variant, pc, messages, request, response, i, outcome,
                   stdout, nextId, turns, registryVars, turnFirstId,
                   resourceVars, log, ex,
                   auxVars>>

\* a completion request of r raises: chat() raises, the endpoint answers 500
RestLLMRaises(r) ==
    /\ pc = "rest"
    /\ rest[r].pc \in {"llm", "final"}
    /\ rest' = [rest EXCEPT ![r] =
           RestEnds(r, [kind |-> "raised", value |-> "LLMRequestFailure"])]
    /\ UNCHANGED <<orchVars, registryVars, turnFirstId, resourceVars, log, ex,
                   auxVars>>

\* the first completion of r answers; chat() runs on to its next await
RestLLMResponds(r) ==
    /\ pc = "rest"
    /\ rest[r].pc = "llm"
    /\ \E m \in Responses("Agent", rest[r].request, nextId) :
         /\ nextId' = nextId + Len(m.tool_calls)
         /\ IF m.tool_calls # <<>>
            THEN /\ conversation_history' =
                        Append(conversation_history,
                               AssistantToolMsg(m.content, m.tool_calls))
                 /\ rest' = [rest EXCEPT ![r] =
                        RestStartsCall([@ EXCEPT !.response = m], r, m, 1)]
            ELSE /\ conversation_history' =
                        Append(conversation_history, AssistantMsg(m.content))
                 /\ rest' = [rest EXCEPT ![r] =
                        [RestEnds(r, [kind |-> "returned",
                                      value |-> ReturnValue("Agent", m.content)])
                           EXCEPT !.response = m]]
    /\ UNCHANGED <<variant, pc, messages, request, response, i, outcome,
                   stdout, turns, registryVars, turnFirstId, resourceVars, log, ex,
                   auxVars>>

\* the tool call r waits for returns; chat() appends the tool message and
\* runs on to its next await
RestToolReturns(r) ==
    /\ pc = "rest"
    /\ rest[r].pc = "call"
    /\ LET m == rest[r].response
           tc == m.tool_calls[rest[r].i]
           args == json_loads(ArgumentsToParse("Agent", tc)).value IN
       \E out \in CallOutcomes :
         /\ conversation_history' =
                WithToolResult(conversation_history,
                       ToolMsg(tc.id, _execute_tool(tc.name, args, out).text))
         /\ rest' = [rest EXCEPT ![r] =
                IF MoreCalls(rest[r].i, m.tool_calls)
                THEN RestStartsCall(@, r, m, rest[r].i + 1)
                ELSE [@ EXCEPT !.pc = "final",
                               !.request = NextRequest("Agent",
                                                       conversation_history')]]
    /\ UNCHANGED <<variant, pc, messages, request, response, i, outcome,
                   stdout, nextId, turns, registryVars, turnFirstId,
                   resourceVars, log, ex,
                   auxVars>>

\* the completion issued after the tools ran answers; chat() returns
RestFinalResponds(r) ==
    /\ pc = "rest"
    /\ rest[r].pc = "final"
    /\ \E m \in Responses("Agent", rest[r].request, nextId) :
         /\ conversation_history' =
                Append(conversation_history, AssistantMsg(m.content))
         /\ rest' = [rest EXCEPT ![r] =
                RestEnds(r, [kind |-> "returned",
                             value |-> ReturnValue("Agent", m.content)])]
    /\ UNCHANGED <<variant, pc, messages, request, response, i, outcome,
                   stdout, nextId, turns, registryVars, turnFirstId,
                   resourceVars, log, ex,
                   auxVars>>

\* after startup_event: global_agent is initialized, no request has arrived
InitRest ==
    /\ variant = "Agent"
    /\ pc = "rest"
    /\ messages = <<>>
    /\ conversation_history = <<>>
    /\ request = NoRequest
    /\ response = NoResponse
    /\ i = 0
    /\ outcome = NoOutcome
    /\ stdout = <<>>
    /\ nextId = 1
    /\ turns = 0
    /\ sessions = <<>>
    /\ available_tools = AgentTools
    /\ tool_to_session = <<>>
    /\ origins = <<>>
    /\ exit_stack = <<>>
    /\ connected = 0
    /\ turnFirstId = 1
    /\ opened = ProviderContexts(1)
    /\ closed = <<>>
    /\ log = NoLog
    /\ rest = [r \in RestRequests |-> NoHandler]
    /\ ex = NoExec
    /\ AuxIdle

NextRest ==
    \E r \in RestRequests :
        \/ RestQuery(r)
        \/ RestLLMRaises(r)
        \/ RestLLMResponds(r)
        \/ RestToolReturns(r)
        \/ RestFinalResponds(r)

SpecRest == InitRest /\ [][NextRest]_vars

----------------------------------------------------------------------------
(* Reading a transcript *)

IsToolRequest(m) == m.role = "assistant" /\ Len(m.tool_calls) >= 1

\* the places <<q, k>> of the tool-call requests of msgs that carry id
RequestsWithId(msgs, id) ==
    { qk \in (1..Len(msgs)) \X (1..MaxCalls + 1) :
        /\ msgs[qk[1]].role = "assistant"
        /\ qk[2] <= Len(msgs[qk[1]].tool_calls)
        /\ msgs[qk[1]].tool_calls[qk[2]].id = id }

\* the places of the tool messages of msgs that carry id
AnswersWithId(msgs, id) ==
    { p \in 1..Len(msgs) : msgs[p].role = "tool" /\ msgs[p].tool_call_id = id }

\* every assistant message with n tool-call requests is followed by exactly
\* n tool messages, the k-th carrying the id of the k-th request
AnsweredInOrder(msgs) ==
    \A p \in 1..Len(msgs) :
        IsToolRequest(msgs[p]) =>
            LET n == Len(msgs[p].tool_calls) IN
            /\ p + n <= Len(msgs)
            /\ \A k \in 1..n :
                 /\ msgs[p + k].role = "tool"
                 /\ msgs[p + k].tool_call_id = msgs[p].tool_calls[k].id
            /\ (p + n < Len(msgs) => msgs[p + n + 1].role # "tool")

ToolMessages(msgs) == { p \in 1..Len(msgs) : msgs[p].role = "tool" }

ToolRequests(msgs) == { p \in 1..Len(msgs) : IsToolRequest(msgs[p]) }

\* the tool call the for-loop is at has been dealt with: the loop went on,
\* or the call of process_query / chat is over
LoopPassedCall ==
    /\ i >= 1
    /\ i <= Len(response.tool_calls)
    /\ pc \in {"idle", "llm", "final"}

----------------------------------------------------------------------------
(* The claims *)

\* C1: in every completion request, each assistant message that carries n
\* tool-call requests is directly followed by exactly n tool messages, in
\* the order of the requests, the k-th with the id of the k-th request.
C1_ToolMessagesBeforeNextRequest ==
    pc \in {"llm", "final"} => AnsweredInOrder(request.messages)

\* C2: in every transcript each tool message's tool_call_id is the id of
\* exactly one tool-call request, and that request is carried by an
\* assistant message earlier in the transcript.
C2_ToolMessageMatchesOneEarlierRequest ==
    \A p \in ToolMessages(Transcript) :
        LET hits == RequestsWithId(Transcript, Transcript[p].tool_call_id) IN
        /\ Cardinality(hits) = 1
        /\ \A qk \in hits : qk[1] < p

\* C2 witness: a kept transcript with two tool rounds, both answered
C2_Witness ==
    /\ variant = "Agent"
    /\ Cardinality(ToolRequests(Transcript)) >= 2
    /\ Cardinality(ToolMessages(Transcript)) >= 2

C4_TurnEndsOnlyWhenLLMStopsCalling ==
    outcome.kind = "returned" =>
        /\ response.tool_calls = <<>>
        /\ request.offers_tools

\* C5: a request for a tool that is not registered (L3, L6) is answered by
\* a tool message with the request's id and does not raise to the caller.
C5_UnknownToolIsAnswered ==
    ( /\ variant \in {"L3", "L6"}
      /\ LoopPassedCall
      /\ IF variant = "L3"
         THEN response.tool_calls[i].name \notin mapping_tool_function
         ELSE response.tool_calls[i].name \notin DOMAIN tool_to_session )
    => /\ outcome.kind # "raised"
       /\ AnswersWithId(Transcript, response.tool_calls[i].id) # {}

\* C6: a tool-call request whose raw_arguments do not parse is answered by
\* a tool message with the request's id and does not raise out of the turn.
C6_MalformedArgumentsAreAnswered ==
    ( /\ LoopPassedCall
      /\ json_loads(ArgumentsToParse(variant, response.tool_calls[i])).raised )
    => /\ outcome.kind # "raised"
       /\ AnswersWithId(Transcript, response.tool_calls[i].id) # {}

\* C7: a failure raised by a tool invocation never ends the call of
\* process_query / chat with an exception.
C7_HandlerFailureDoesNotPropagate ==
    ~ ( /\ outcome.kind = "raised"
        /\ outcome.value \in {"HandlerError", "McpError"} )

\* the text C8 asks of execute_tool for a returned value
C8_Expected(v) ==
    IF v.type = "NoneType" \/ (v.type \in {"list", "dict"} /\ Len(v.items) = 0)
    THEN Placeholder
    ELSE IF v.type = "list"
         THEN Join(", ", [k \in 1..Len(v.items) |-> v.items[k].val])
    ELSE IF v.type = "dict" THEN json_dumps(v)
    ELSE v.val

\* C8: execute_tool turns every value a handler returns into one text and
\* does not raise: the placeholder for an absent or empty result, the
\* elements stringified and joined with ', ' for a list, the pretty-printed
\* form for a dict, the plain text otherwise.
C8_ExecuteToolNormalizes ==
    ( /\ ex.who = "L3"
      /\ ex.tool_name \in mapping_tool_function
      /\ ~ ex.out.raised )
    => \A k \in 1..Len(ex.results) :
           ex.results[k] = Text(C8_Expected(ex.out.value))

C10_OwnerIsNeverReplaced ==
    [][\A n \in DOMAIN tool_to_session :
          /\ n \in DOMAIN tool_to_session'
          /\ tool_to_session'[n] = tool_to_session[n]]_vars

----------------------------------------------------------------------------
(* Connecting and shutting down *)

IsPrefix(a, b) == Len(a) <= Len(b) /\ SubSeq(b, 1, Len(a)) = a

Range(seq) == { seq[k] : k \in 1..Len(seq) }

Count(seq, x) == Cardinality({ k \in 1..Len(seq) : seq[k] = x })

\* C11: a provider that cannot be reached at connect time is reported for
\* that provider only.  In every step of connect_to_server: connect_to_servers
\* goes on (nothing is raised, the connect phase is not left); the tools
\* listed so far stay listed; every name registered so far stays a key of
\* tool_to_session, bound to a session of sessions; and a step that prints
\* a failure prints one line naming that provider and leaves
\* available_tools and tool_to_session as they were.
C11_ConnectFailureIsLocal ==
    [][(variant = "L6" /\ connected' = connected + 1) =>
         /\ pc' = "connect"
         /\ outcome' = outcome
         /\ IsPrefix(available_tools, available_tools')
         /\ \A n \in DOMAIN tool_to_session :
              /\ n \in DOMAIN tool_to_session'
              /\ tool_to_session'[n] \in Range(sessions')
         /\ \A n \in Range(available_tools') : n \in DOMAIN tool_to_session'
         /\ (stdout' # stdout =>
               /\ stdout' = Append(stdout, FailedToConnect(connected'))
               /\ available_tools' = available_tools
               /\ tool_to_session' = tool_to_session)]_vars

\* the first provider failed, the second one was connected after it and its
\* tools are registered
C11_Witness ==
    /\ variant = "L6"
    /\ connected = 2
    /\ stdout = <<FailedToConnect(1)>>
    /\ available_tools # <<>>
    /\ \A n \in Range(available_tools) :
         n \in DOMAIN tool_to_session /\ tool_to_session[n] = 2

\* C12: on shutdown every provider context that was opened has been closed
\* exactly once, and no context is ever closed twice.
C12_EveryContextClosedOnce ==
    /\ \A c \in Range(closed) : Count(closed, c) = 1 /\ c \in Range(opened)
    /\ pc = "closed" => \A c \in Range(opened) : Count(closed, c) = 1

----------------------------------------------------------------------------
(* Failures of a turn *)

\* the places of conversation_history written by the current turn: its user
\* message, and the messages carrying a tool-call id issued during it
TurnMessages ==
    { p \in 1..Len(conversation_history) :
        LET m == conversation_history[p] IN
        \/ m = UserMsg(QueryText(turns))
        \/ m.role = "tool" /\ m.tool_call_id >= turnFirstId
        \/ \E k \in 1..Len(m.tool_calls) : m.tool_calls[k].id >= turnFirstId }

\* C13: after a turn of chat that failed, conversation_history holds none of
\* the messages of that turn (it is what it was before the turn), and no
\* tool-call request in it is left without its tool message.
C13_FailedTurnLeavesHistoryAsBefore ==
    (variant = "Agent" /\ outcome.kind = "raised") =>
        /\ TurnMessages = {}
        /\ AnsweredInOrder(conversation_history)

\* C14: a completion request that raises ends the turn and nothing else, and
\* the failure is shown: the chat loop prints an error line with the failure
\* text and is back at reading the next query; the REST endpoint answers
\* 500 with the failure text, not a normal answer.
C14_LLMFailureIsSurfaced ==
    [][(pc \in {"llm", "final"} /\ outcome'.kind = "raised") =>
         /\ outcome'.value = "LLMRequestFailure"
         /\ pc' = "idle"
         /\ turns' = turns
         /\ stdout' = Append(stdout, ErrorLine("LLMRequestFailure"))
         /\ QueryEndpoint(outcome') =
                [status_code |-> 500, body |-> "LLMRequestFailure"]]_vars

\* the second query is being answered after the first one failed in its
\* completion request
C14_Witness ==
    /\ variant = "Agent"
    /\ turns = 2
    /\ pc = "llm"
    /\ conversation_history = <<UserMsg(QueryText(1)), UserMsg(QueryText(2))>>

----------------------------------------------------------------------------
(* One tool call at a time *)

\* the requests whose handler is suspended in mcp_session.call_tool
CallsInFlight == { r \in RestRequests : rest[r].pc = "call" }

\* C15: at most one tool call is in flight on the one mcp_session.
C15_OneCallInFlight == Cardinality(CallsInFlight) <= 1

----------------------------------------------------------------------------
(* The shape of a turn *)

\* the chatbots whose process_query is a loop with a local transcript
LoopVariants == {"L3", "L5", "L6"}

\* the places of msgs that carry a tool-call id issued before the current
\* query began
EarlierIds(msgs) ==
    { p \in 1..Len(msgs) :
        \/ msgs[p].role = "tool" /\ msgs[p].tool_call_id < turnFirstId
        \/ \E k \in 1..Len(msgs[p].tool_calls) :
             msgs[p].tool_calls[k].id < turnFirstId }

\* C16: in L3, L5 and L6 every call of process_query starts from a fresh
\* transcript: its first completion request holds exactly the user message
\* with the query text, and no completion request holds a message of an
\* earlier query (another user message, or a tool-call id issued earlier).
C16_TranscriptIsFreshPerQuery ==
    (variant \in LoopVariants /\ request # NoRequest) =>
        /\ request.messages[1] = UserMsg(QueryText(turns))
        /\ (response = NoResponse => Len(request.messages) = 1)
        /\ \A p \in 2..Len(request.messages) : request.messages[p].role # "user"
        /\ EarlierIds(request.messages) = {}

\* the second query asks for a completion after a tool round, and the first
\* query had a tool round as well
C16_Witness ==
    /\ variant = "L5"
    /\ turns = 2
    /\ turnFirstId = 2
    /\ pc = "llm"
    /\ Len(request.messages) = 3

\* C17: the tool calls of one response are invoked in the order of the
\* response, one at a time: while the for-loop is at the i-th call, the
\* transcript ends with the tool messages of the calls before it, in order,
\* and holds no tool message of the i-th or a later call.
C17_ToolCallsRunInOrder ==
    pc \in {"exec", "call"} =>
        LET n == Len(Transcript) IN
        /\ i \in 1..Len(response.tool_calls)
        /\ \A k \in 1..Len(response.tool_calls) :
             IF k < i
             THEN /\ Transcript[n - (i - 1) + k].role = "tool"
                  /\ Transcript[n - (i - 1) + k].tool_call_id =
                         response.tool_calls[k].id
             ELSE AnswersWithId(Transcript, response.tool_calls[k].id) = {}

\* the second tool call of a response is in flight
C17_Witness == pc = "call" /\ i = 2 /\ Len(response.tool_calls) = 2

\* C18: every completion request passes the full current transcript and
\* the current tool descriptor list.
C18_RequestCarriesTranscriptAndTools ==
    pc \in {"llm", "final"} =>
        /\ request.offers_tools
        /\ request.tools = available_tools
        /\ request.messages = IF variant = "Agent"
                              THEN <<SystemMsg>> \o conversation_history
                              ELSE messages

\* the last n messages of msgs are the tool messages of tool_calls, in order
EndsWithResults(msgs, tool_calls) ==
    LET n == Len(tool_calls) IN
    /\ Len(msgs) >= n
    /\ \A k \in 1..n :
         /\ msgs[Len(msgs) - n + k].role = "tool"
         /\ msgs[Len(msgs) - n + k].tool_call_id = tool_calls[k].id

\* the moves a step may make between the states of the orchestrator
OrderedStep ==
    /\ (pc' \in {"exec", "call"} /\ pc \notin {"exec", "call"}) =>
         /\ pc = "llm"
         /\ response'.tool_calls # <<>>
         /\ i' = 1
    /\ (pc' \in {"llm", "final"} /\ pc \notin {"llm", "final"}) =>
         \/ /\ pc = "idle"
            /\ Transcript'[Len(Transcript')] = UserMsg(QueryText(turns'))
         \/ /\ pc = "call"
            /\ EndsWithResults(Transcript', response.tool_calls)
    /\ (outcome'.kind = "returned" /\ outcome.kind # "returned") =>
         /\ pc \in {"llm", "final"}
         /\ pc' = "idle"
         /\ response'.tool_calls = <<>>
    /\ pc = "idle" => pc' \in {"idle", "llm", "cleanup"}

\* C19: the orchestrator moves only along
\*   AWAITING_USER_INPUT (pc idle) -> AWAITING_LLM_RESPONSE (llm, final)
\*   -> (LLM_REQUESTS_TOOLS -> EXECUTING_TOOLS (exec, call)
\*       -> AWAITING_LLM_RESPONSE)* -> FINAL_RESPONSE_READY (idle, returned):
\* tools are executed only after a response that requested them; a
\* completion is requested only after a user message or after all tool
\* results of the previous response were appended; the final response is
\* reached only directly from a response without tool calls.
C19_StatesInOrder == [][OrderedStep]_vars

\* a turn with two tool calls in one response has come to its final answer
C19_Witness ==
    /\ variant = "L3"
    /\ outcome.kind = "returned"
    /\ Len(messages) = 4

\* what a step of the loop of process_query may do
LoopStep ==
    variant \in LoopVariants =>
        /\ (pc = "llm" /\ pc' # "llm" /\ outcome'.kind # "raised") =>
             IF response'.tool_calls = <<>>
             THEN pc' = "idle" /\ outcome'.kind = "returned"
             ELSE pc' = "exec" /\ outcome' = outcome
        /\ (pc = "call" /\ pc' \notin {"call", "exec"}
              /\ outcome'.kind # "raised") =>
             /\ pc' = "llm"
             /\ request'.offers_tools
             /\ request'.tools = available_tools
        /\ (outcome'.kind = "returned" /\ outcome.kind # "returned") =>
             pc = "llm" /\ response'.tool_calls = <<>>

\* C20: the loop of process_query (L3, L5, L6) has no bound on its rounds.
\* A response ends the call exactly when it carries no tool call; a
\* response with tool calls always leads to their execution and, after the
\* last result, to another completion request that offers the tools again,
\* however many rounds went before; and when every request and every call
\* comes back, a call whose LLM stops requesting tools comes to its end.
C20_LoopEndsExactlyOnFinalResponse ==
    /\ [][LoopStep]_vars
    /\ (variant \in LoopVariants /\ pc \in {"llm", "exec", "call"})
           ~> (pc = "idle" /\ outcome.kind \in {"returned", "raised"})

\* process_query has returned after two rounds of tool calls
C20_Witness ==
    /\ variant = "L5"
    /\ outcome.kind = "returned"
    /\ Len(messages) = 5
    /\ Cardinality(ToolRequests(messages)) = 2

----------------------------------------------------------------------------
(* Requests and invocations of one call *)

\* the tool-call ids the LLM issued during the current call that the
\* transcript holds as requests
TurnRequestIds ==
    LET t == Transcript IN
    { id \in turnFirstId..(nextId - 1) :
        \E p \in 1..Len(t) :
            /\ t[p].role = "assistant"
            /\ \E k \in 1..Len(t[p].tool_calls) : t[p].tool_calls[k].id = id }

\* the responses with tool calls received during the current call
TurnRounds ==
    Cardinality({ p \in ToolRequests(Transcript) :
                    Transcript[p].tool_calls[1].id >= turnFirstId })

\* C21: nothing is retried.  No tool-call request is handed to the executor
\* twice, every invocation is for a request received in this call, the
\* completion requests of a call never exceed its tool rounds plus one, and
\* a call that returns has issued exactly that many and has invoked every
\* request exactly once.
C21_NothingIsRetried ==
    LET ids == TurnRequestIds
        rounds == TurnRounds IN
    /\ \A a, b \in 1..Len(log.invoked) :
         a # b => log.invoked[a].id # log.invoked[b].id
    /\ \A a \in 1..Len(log.invoked) : log.invoked[a].id \in ids
    /\ log.completions <= rounds + 1
    /\ outcome.kind = "returned" =>
         /\ log.completions = rounds + 1
         /\ Len(log.invoked) = Cardinality(ids)

\* a call has returned after invoking the two tool calls of one response
C21_Witness ==
    /\ variant = "L6"
    /\ outcome.kind = "returned"
    /\ Len(log.invoked) = 2
    /\ log.completions = 2

----------------------------------------------------------------------------
(* The Agent's conversation history *)

IsAnswer(m) == m.role = "assistant" /\ m.tool_calls = <<>>

\* C22: on every normal return of chat(), with or without a tool round, the
\* last message of conversation_history is an assistant message without
\* tool calls whose content is the returned value.
C22_AnswerIsAppendedAndReturned ==
    (variant = "Agent" /\ outcome.kind = "returned") =>
        LET m == conversation_history[Len(conversation_history)] IN
        /\ IsAnswer(m)
        /\ m.content = outcome.value
        /\ m.content = response.content

\* chat() has returned after a tool round
C22_Witness ==
    /\ variant = "Agent"
    /\ outcome.kind = "returned"
    /\ Len(log.invoked) = 1
    /\ Len(conversation_history) = 4

\* the place of the user message of the t-th query in msgs, 0 if it is not
\* there exactly once
UserPlace(msgs, t) ==
    LET places == { p \in 1..Len(msgs) : msgs[p] = UserMsg(QueryText(t)) } IN
    IF Cardinality(places) = 1 THEN CHOOSE p \in places : TRUE ELSE 0

\* seg is the messages of one turn: the user message, then nothing more or
\* one tool round (the request and its results in order), then, when the
\* turn is complete, the final answer
TurnShape(seg, complete) ==
    /\ Len(seg) >= 1
    /\ seg[1].role = "user"
    /\ IF Len(seg) >= 2 /\ IsToolRequest(seg[2])
       THEN LET n == Len(seg[2].tool_calls) IN
            /\ Len(seg) = IF complete THEN n + 3 ELSE n + 2
            /\ \A k \in 1..n :
                 /\ seg[2 + k].role = "tool"
                 /\ seg[2 + k].tool_call_id = seg[2].tool_calls[k].id
            /\ complete => IsAnswer(seg[n + 3])
       ELSE IF complete THEN Len(seg) = 2 /\ IsAnswer(seg[2])
            ELSE Len(seg) = 1

\* C23: after successful calls of chat() only, the messages of every
\* completion request are the system message, then the messages of every
\* earlier turn, complete and in the order of the turns, then the messages
\* of the current turn.
C23_HistoryIsRetained ==
    (variant = "Agent" /\ pc \in {"llm", "final"} /\ log.failed = 0) =>
        LET msgs == request.messages
            start(t) == IF t = turns + 1 THEN Len(msgs) + 1
                        ELSE UserPlace(msgs, t) IN
        /\ msgs[1] = SystemMsg
        /\ Tail(msgs) = conversation_history
        /\ start(1) = 2
        /\ \A t \in 1..turns :
             /\ start(t) # 0
             /\ start(t) < start(t + 1)
             /\ TurnShape(SubSeq(msgs, start(t), start(t + 1) - 1), t < turns)

\* the second turn asks for its final answer after a tool round, and the
\* first turn had a tool round as well
C23_Witness ==
    /\ variant = "Agent"
    /\ turns = 2
    /\ pc = "final"
    /\ log.failed = 0
    /\ Len(request.messages) = 8

\* what a step may do to the transcript
AppendOnlyStep ==
    /\ variant = "Agent" =>
         IsPrefix(conversation_history, conversation_history')
    /\ (variant \in LoopVariants /\ pc \in {"llm", "exec", "call"}) =>
         IsPrefix(messages, messages')

\* C24: the transcript is append-only: within one query (for
\* conversation_history also from query to query) the transcript before a
\* step is a prefix of the transcript after it.
C24_TranscriptIsAppendOnly == [][AppendOnlyStep]_vars

\* a transcript that grew over two tool rounds
C24_Witness ==
    /\ variant = "L3"
    /\ pc = "llm"
    /\ Len(messages) = 5

----------------------------------------------------------------------------
(* L6: names and owners *)

\* C25: the tool names in available_tools are pairwise distinct.
C25_ToolNamesAreDistinct ==
    \A j, k \in 1..Len(available_tools) :
        j # k => available_tools[j] # available_tools[k]

\* C26: in L6 every invocation for a name goes to the session of the
\* provider that published the descriptor of that name shown to the LLM,
\* and to no other: whatever entry of available_tools carries the name, it
\* came from the session the call is sent to.
C26_InvocationGoesToOwner ==
    variant = "L6" =>
        \A a \in 1..Len(log.invoked) :
            \A k \in 1..Len(available_tools) :
                available_tools[k] = log.invoked[a].name =>
                    origins[k] = log.invoked[a].session

----------------------------------------------------------------------------
(* The registry during the chat loop *)

\* what a step outside the connect phase leaves alone
RegistryFrameStep ==
    pc # "connect" =>
        /\ available_tools' = available_tools
        /\ tool_to_session' = tool_to_session
        /\ origins' = origins

\* C27: process_query and chat leave available_tools and tool_to_session as
\* they are (same entries, same order), whatever the LLM responds and
\* however the turn ends; only the connect operations change them.
C27_RegistryIsLeftAlone == [][RegistryFrameStep]_vars

\* a query failed in L6 after its tools were registered
C27_Witness ==
    /\ variant = "L6"
    /\ outcome.kind = "raised"
    /\ Len(available_tools) = 3
    /\ turns = 2

----------------------------------------------------------------------------
(* The Agent's executor *)

\* the texts of the text-bearing items of content, joined by newlines
JoinedTexts(content) ==
    LET texts == SelectSeq(content, LAMBDA item : item.hasText) IN
    IF Len(texts) = 0 THEN ""
    ELSE Join("\n", [k \in 1..Len(texts) |-> texts[k].text])

\* what the claim says _execute_tool gives for what call_tool did
C28_Expected(tool_name, out) ==
    IF out.raised THEN "Error executing tool " \o tool_name \o ": call failed"
    ELSE IF Len(out.content) = 0 THEN "Tool executed but returned no content"
    ELSE JoinedTexts(out.content)

\* C28: _execute_tool never raises: it returns the texts of the
\* text-bearing items joined by newlines (the empty string when a non-empty
\* content has none), the fixed text for an absent or empty content, and
\* 'Error executing tool <name>: <message>' when the call fails.
C28_ExecuteToolNeverRaises ==
    ex.who = "Agent" =>
        \A k \in 1..Len(ex.results) :
            /\ ~ ex.results[k].raised
            /\ ex.results[k].text = C28_Expected(ex.tool_name, ex.out)

\* _execute_tool was called on a result that holds an image only
C28_Witness ==
    /\ ex.who = "Agent"
    /\ Len(ex.results) >= 1
    /\ ex.out = CallResult(<<ImageContent>>)
    /\ ex.results[1].text = ""

----------------------------------------------------------------------------
(* Unanswered tool calls *)

\* C29: the transcript of every completion request holds no unanswered
\* tool call: every tool-call id requested in it has exactly one tool
\* message, and that message comes after the request.
C29_NoUnansweredCallInRequest ==
    pc \in {"llm", "final"} =>
        \A id \in 1..(nextId - 1) :
            \A qk \in RequestsWithId(request.messages, id) :
                /\ Cardinality(AnswersWithId(request.messages, id)) = 1
                /\ \A p \in AnswersWithId(request.messages, id) : p > qk[1]

\* a user message comes first or right after the final answer of the turn
\* before it, and the last message is a final answer
TurnsContiguous(msgs) ==
    /\ \A p \in 1..Len(msgs) :
         msgs[p].role = "user" => (p = 1 \/ IsAnswer(msgs[p - 1]))
    /\ Len(msgs) > 0 => IsAnswer(msgs[Len(msgs)])

\* C30: when chat() calls on the global_agent overlap, conversation_history
\* keeps each turn contiguous: once the requests have been answered
\* normally, every assistant message with tool calls is followed at once by
\* the tool messages of exactly its requests, and no message of another
\* turn stands between a turn's user message and its final answer.
C30_TurnsStayContiguous ==
    (\A r \in RestRequests : rest[r].answer.status_code = 200) =>
        /\ AnsweredInOrder(conversation_history)
        /\ TurnsContiguous(conversation_history)

----------------------------------------------------------------------------
(* The registry after the connect phase *)

\* a connect_to_server step that failed
FailedConnectStep ==
    (variant = "L6" /\ connected' = connected + 1 /\ stdout' # stdout) =>
        /\ available_tools' = available_tools
        /\ tool_to_session' = tool_to_session
        /\ origins' = origins

\* the providers whose connect_to_server call printed a failure
FailedProviders ==
    { s \in 1..connected : FailedToConnect(s) \in Range(stdout) }

\* no descriptor and no routing entry comes from a provider that failed
FailedProvidersContributeNothing ==
    (variant = "L6" /\ pc \in {"connect", "idle"} /\ turns = 0) =>
        \A s \in FailedProviders :
            /\ s \notin Range(origins)
            /\ \A n \in DOMAIN tool_to_session : tool_to_session[n] # s

\* C31: a connect_to_server call that fails leaves available_tools and
\* tool_to_session exactly as they were before the call, and a provider
\* whose connection, handshake or tool listing failed contributes no
\* descriptor and no routing entry, not even a partial set.
C31_FailedConnectRegistersNothing ==
    [][FailedConnectStep]_vars /\ []FailedProvidersContributeNothing

\* the first provider is registered, the second one failed in list_tools
\* after its session was kept
C31_Witness ==
    /\ variant = "L6"
    /\ connected = 2
    /\ sessions = <<1, 2>>
    /\ FailedProviders = {2}
    /\ Range(origins) = {1}
    /\ Len(available_tools) = 2

\* C32: after any sequence of successful and failed connect_to_server
\* calls the names in available_tools are the keys of tool_to_session and
\* every session held in tool_to_session is in sessions, so the lookup
\* tool_to_session[tool_name] finds a session for every name that a request
\* advertised to the LLM.
C32_AdvertisedNamesAreRouted ==
    variant = "L6" =>
        /\ Range(available_tools) = DOMAIN tool_to_session
        /\ \A n \in DOMAIN tool_to_session :
             tool_to_session[n] \in Range(sessions)
        /\ pc \in {"llm", "exec", "call", "final"} =>
             \A n \in Range(request.tools) :
                 /\ n \in DOMAIN tool_to_session
                 /\ SessionFor(variant, n) \in Range(sessions)

\* one provider failed, one published two tools, and a call to the second
\* of them was routed
C32_Witness ==
    /\ variant = "L6"
    /\ connected = 2
    /\ Len(sessions) = 1
    /\ pc = "call"
    /\ Len(available_tools) = 2
    /\ tool_call.name = available_tools[2]
    /\ Len(log.invoked) >= 1
    /\ log.invoked[Len(log.invoked)].session \in Range(sessions)

----------------------------------------------------------------------------
(* L5 and L6 run side by side on the same inputs *)

Chatbots == {"L5", "L6"}

\* a chatbot after __init__
NoRun ==
    [pc |-> "connect", sessions |-> <<>>, available_tools |-> <<>>,
     tool_to_session |-> <<>>, messages |-> <<>>, request |-> NoRequest,
     response |-> NoResponse, i |-> 0, outcome |-> NoOutcome,
     stdout |-> <<>>, requests |-> <<>>, invoked |-> <<>>]

\* connect_to_server (L6) got as far as stage with the provider that
\* publishes tools; connect_to_server_and_run (L5) knows that provider only
\* and builds available_tools from its list_tools answer
RunConnect(v, run, stage, tools, session) ==
    IF v = "L6"
    THEN [run EXCEPT
            !.sessions = IF stage \in {"list_tools", "ok"}
                         THEN Append(@, session) ELSE @,
            !.tool_to_session = IF stage = "ok"
                                THEN Register(@, tools, session) ELSE @,
            !.available_tools = ToolsAfterConnect(stage, @, tools)]
    ELSE IF stage = "ok"
         THEN [run EXCEPT !.sessions = <<session>>, !.available_tools = tools]
         ELSE run

\* process_query(query) up to its first completion request
RunQuery(run, query) ==
    LET msgs == InitialMessages(run.messages, query)
        req == CompletionRequest(msgs, run.available_tools) IN
    [run EXCEPT !.pc = "llm", !.messages = msgs, !.request = req,
                !.requests = <<req>>, !.invoked = <<>>,
                !.response = NoResponse, !.i = 0, !.outcome = NoOutcome,
                !.stdout = <<>>]

\* process_query raises; chat_loop prints the error and reads on
RunAbort(run, e) ==
    [run EXCEPT !.pc = "idle",
                !.outcome = [kind |-> "raised", value |-> e],
                !.stdout = ChatLoopHandler(@, e)]

\* the body of the while loop for the response r
RunLLMResponds(v, run, r) ==
    IF run.pc # "llm" THEN run
    ELSE IF r.tool_calls # <<>>
    THEN [run EXCEPT
            !.response = r,
            !.stdout = Append(@, r.content),
            !.messages = Append(@, AssistantToolMsg(
                                       AssistantContent(v, r.content),
                                       r.tool_calls)),
            !.i = 1,
            !.pc = "exec"]
    ELSE [run EXCEPT
            !.response = r,
            !.stdout = Append(@, r.content),
            !.outcome = [kind |-> "returned",
                         value |-> ReturnValue(v, r.content)],
            !.pc = "idle"]

\* the for-loop body up to the await of call_tool
RunInvoke(v, run) ==
    IF run.pc # "exec" THEN run
    ELSE LET tc == run.response.tool_calls[run.i]
             parsed == json_loads(ArgumentsToParse(v, tc)) IN
         IF parsed.raised THEN RunAbort(run, parsed.exc)
         ELSE IF v = "L6" /\ tc.name \notin DOMAIN run.tool_to_session
              THEN RunAbort(run, "KeyError")
         ELSE [run EXCEPT
                 !.pc = "call",
                 !.invoked = Append(@, [id |-> tc.id, name |-> tc.name,
                                        arguments |-> tc.arguments])]

\* call_tool comes back with out: the tool message is appended and, after
\* the last tool call, the next completion is requested
RunToolReturns(v, run, out) ==
    IF run.pc # "call" THEN run
    ELSE LET tc == run.response.tool_calls[run.i]
             args == json_loads(ArgumentsToParse(v, tc)).value
             res == call_tool(tc.name, args, out)
             msgs == WithToolResult(run.messages, ToolMsg(tc.id, res.text))
             req == CompletionRequest(msgs, run.available_tools) IN
         IF res.raised THEN RunAbort(run, res.exc)
         ELSE IF MoreCalls(run.i, run.response.tool_calls)
              THEN [run EXCEPT !.messages = msgs, !.i = NextIndex(@),
                               !.pc = "exec"]
              ELSE [run EXCEPT !.messages = msgs, !.request = req,
                               !.requests = Append(@, req), !.pc = "llm"]

\* what the side-by-side run leaves alone
pairFrame ==
    <<variant, pc, messages, conversation_history, request, response, i,
      outcome, stdout, sessions, available_tools, tool_to_session, origins,
      exit_stack, turnFirstId, resourceVars, rest, log, ex, loop,
      tool_server, papers_dir>>

\* L6 goes through one server of its configuration; the one server that
\* connects is the server of L5
PairConnect ==
    /\ pc = "pair"
    /\ twin["L6"].pc = "connect"
    /\ connected < MaxServers
    /\ \E stage \in ConnectStages, tools \in PublishedLists :
         /\ stage = "ok" => twin["L5"].sessions = <<>>
         /\ twin' = [v \in Chatbots |->
                       RunConnect(v, twin[v], stage, tools, connected + 1)]
    /\ connected' = connected + 1
    /\ UNCHANGED <<pairFrame, nextId, turns>>

\* both chat loops start, with exactly one provider connected
PairStartChatLoop ==
    /\ pc = "pair"
    /\ twin["L6"].pc = "connect"
    /\ Len(twin["L5"].sessions) = 1
    /\ twin' = [v \in Chatbots |-> [twin[v] EXCEPT !.pc = "idle"]]
    /\ UNCHANGED <<pairFrame, nextId, turns, connected>>

\* the same query is typed into both
PairProcessQuery ==
    /\ pc = "pair"
    /\ \A v \in Chatbots : twin[v].pc = "idle"
    /\ turns < MaxTurns
    /\ twin' = [v \in Chatbots |-> RunQuery(twin[v], QueryText(turns + 1))]
    /\ turns' = turns + 1
    /\ UNCHANGED <<pairFrame, nextId, connected>>

\* the chatbots that wait for a completion
Waiting(where) == { v \in Chatbots : twin[v].pc = where }

\* the LLM gives both the same response
PairLLMResponds ==
    /\ pc = "pair"
    /\ Waiting("llm") # {}
    /\ \E r \in UNION { Responses(v, twin[v].request, nextId) :
                        v \in Waiting("llm") } :
         /\ twin' = [v \in Chatbots |-> RunLLMResponds(v, twin[v], r)]
         /\ nextId' = nextId + Len(r.tool_calls)
    /\ UNCHANGED <<pairFrame, turns, connected>>

\* the completion request fails for both
PairLLMRaises ==
    /\ pc = "pair"
    /\ Waiting("llm") # {}
    /\ twin' = [v \in Chatbots |->
                  IF twin[v].pc = "llm"
                  THEN RunAbort(twin[v], "LLMRequestFailure") ELSE twin[v]]
    /\ UNCHANGED <<pairFrame, nextId, turns, connected>>

\* both go on to their next tool invocation
PairInvokeTool ==
    /\ pc = "pair"
    /\ Waiting("exec") # {}
    /\ twin' = [v \in Chatbots |-> RunInvoke(v, twin[v])]
    /\ UNCHANGED <<pairFrame, nextId, turns, connected>>

\* the provider gives both the same tool result
PairToolReturns ==
    /\ pc = "pair"
    /\ Waiting("call") # {}
    /\ \E out \in CallOutcomes :
         twin' = [v \in Chatbots |-> RunToolReturns(v, twin[v], out)]
    /\ UNCHANGED <<pairFrame, nextId, turns, connected>>

InitPair ==
    /\ variant = "L6"
    /\ pc = "pair"
    /\ messages = <<>>
    /\ conversation_history = <<>>
    /\ request = NoRequest
    /\ response = NoResponse
    /\ i = 0
    /\ outcome = NoOutcome
    /\ stdout = <<>>
    /\ nextId = 1
    /\ turns = 0
    /\ sessions = <<>>
    /\ available_tools = <<>>
    /\ tool_to_session = <<>>
    /\ origins = <<>>
    /\ exit_stack = <<>>
    /\ connected = 0
    /\ turnFirstId = 1
    /\ opened = <<>>
    /\ closed = <<>>
    /\ log = NoLog
    /\ rest = <<>>
    /\ ex = NoExec
    /\ twin = [v \in Chatbots |-> NoRun]
    /\ loop = <<>>
    /\ tool_server = <<>>
    /\ papers_dir = <<>>

NextPair ==
    \/ PairConnect
    \/ PairStartChatLoop
    \/ PairProcessQuery
    \/ PairLLMResponds
    \/ PairLLMRaises
    \/ PairInvokeTool
    \/ PairToolReturns

SpecPair == InitPair /\ [][NextPair]_vars

\* what can be seen of a chatbot from outside: where it stands, what it
\* sent to the LLM, what it invoked, its transcript and what it printed
Observed(run) ==
    [pc |-> run.pc, requests |-> run.requests, invoked |-> run.invoked,
     messages |-> run.messages, i |-> run.i, outcome |-> run.outcome,
     stdout |-> run.stdout]

\* C33: with exactly one provider connected and the same LLM responses and
\* tool results, L6 issues the same completion requests and tool
\* invocations and builds the same transcript as L5, step for step.
C33_OneProviderL6IsL5 ==
    (pc = "pair" /\ twin["L6"].pc # "connect") =>
        Observed(twin["L6"]) = Observed(twin["L5"])

\* the names the last response asked for were all advertised
AdvertisedOnly(run) ==
    \A k \in 1..Len(run.response.tool_calls) :
        run.response.tool_calls[k].name \in Range(run.available_tools)

\* as long as the LLM asks for advertised names only, the two go together
PairStep ==
    (/\ pc = "pair"
     /\ twin["L6"].pc # "connect"
     /\ Observed(twin["L6"]) = Observed(twin["L5"])
     /\ AdvertisedOnly(twin["L5"]'))
    => Observed(twin["L6"]') = Observed(twin["L5"]')

PairStepProperty == [][PairStep]_vars

----------------------------------------------------------------------------
(* chat_loop on its own (L3, L5, L6) *)

\* lines read by one run of chat_loop
MaxReads == 3

\* a line is the sequence of its characters
Whitespace == {" ", "\t"}

\* what the user may type
Lines ==
    {<<"q", "u", "i", "t">>,
     <<"Q", "U", "I", "T">>,
     <<" ", "Q", "u", "i", "t", "\t">>,
     <<"q", "u", "i", "t", "s">>,
     <<"q", "u", " ", "i", "t">>,
     <<>>,
     <<" ">>,
     <<"h", "i">>}

\* str.lower() of one character
LowerChar(c) ==
    CASE c = "Q" -> "q"
      [] c = "U" -> "u"
      [] c = "I" -> "i"
      [] c = "T" -> "t"
      [] OTHER -> c

\* mutant of lower: the comparison is case-sensitive
lower_unchanged(s) == s

\* str.lower()
lower(s) == [k \in 1..Len(s) |-> LowerChar(s[k])]

RECURSIVE lstrip(_)
lstrip(s) ==
    IF Len(s) > 0 /\ Head(s) \in Whitespace THEN lstrip(Tail(s)) ELSE s

RECURSIVE rstrip(_)
rstrip(s) ==
    IF Len(s) > 0 /\ s[Len(s)] \in Whitespace
    THEN rstrip(SubSeq(s, 1, Len(s) - 1)) ELSE s

\* str.strip()
strip(s) == rstrip(lstrip(s))

\* the literal 'quit'
QuitWord == <<"q", "u", "i", "t">>

\* chat_loop before its first input()
NoLoop == [pc |-> "input", history |-> <<>>, errors |-> 0]

\* how the call of process_query for the last line ended
LoopCallEnds(how) ==
    [loop EXCEPT !.pc = "input",
                 !.history[Len(loop.history)].outcome = how,
                 !.errors = IF how = "raised" THEN @ + 1 ELSE @]

\* input() gives a line: break on 'quit', process_query(query) otherwise
LoopReadLine ==
    /\ pc = "chat_loop"
    /\ loop.pc = "input"
    /\ Len(loop.history) < MaxReads
    /\ \E line \in Lines :
         LET query == strip(line) IN
         loop' = IF lower(query) = QuitWord
                 THEN [loop EXCEPT
                         !.pc = "ended",
                         !.history = Append(@, [line |-> line, calls |-> <<>>,
                                                outcome |-> "break"])]
                 ELSE [loop EXCEPT
                         !.pc = "process_query",
                         !.history = Append(@, [line |-> line,
                                                calls |-> <<query>>,
                                                outcome |-> "running"])]
    /\ UNCHANGED <<orchVars, registryVars, turnFirstId, resourceVars, rest,
                   log, ex, twin, tool_server, papers_dir>>

\* input() raises (EOFError on a closed stdin): the except clause prints the
\* error and the loop calls input() again
LoopInputRaises ==
    /\ pc = "chat_loop"
    /\ loop.pc = "input"
    /\ loop.errors < MaxReads
    /\ loop' = [loop EXCEPT !.errors = @ + 1]
    /\ UNCHANGED <<orchVars, registryVars, turnFirstId, resourceVars, rest,
                   log, ex, twin, tool_server, papers_dir>>

\* process_query returns
LoopQueryReturns ==
    /\ pc = "chat_loop"
    /\ loop.pc = "process_query"
    /\ loop' = LoopCallEnds("returned")
    /\ UNCHANGED <<orchVars, registryVars, turnFirstId, resourceVars, rest,
                   log, ex, twin, tool_server, papers_dir>>

\* process_query raises: the except clause prints the error
LoopQueryRaises ==
    /\ pc = "chat_loop"
    /\ loop.pc = "process_query"
    /\ loop' = LoopCallEnds("raised")
    /\ UNCHANGED <<orchVars, registryVars, turnFirstId, resourceVars, rest,
                   log, ex, twin, tool_server, papers_dir>>

InitLoop ==
    /\ variant \in {"L3", "L5", "L6"}
    /\ pc = "chat_loop"
    /\ messages = <<>>
    /\ conversation_history = <<>>
    /\ request = NoRequest
    /\ response = NoResponse
    /\ i = 0
    /\ outcome = NoOutcome
    /\ stdout = <<>>
    /\ nextId = 1
    /\ turns = 0
    /\ sessions = <<>>
    /\ available_tools = <<>>
    /\ tool_to_session = <<>>
    /\ origins = <<>>
    /\ exit_stack = <<>>
    /\ connected = 0
    /\ turnFirstId = 1
    /\ opened = <<>>
    /\ closed = <<>>
    /\ log = NoLog
    /\ rest = <<>>
    /\ ex = NoExec
    /\ twin = <<>>
    /\ loop = NoLoop
    /\ tool_server = <<>>
    /\ papers_dir = <<>>

NextLoop ==
    \/ LoopReadLine
    \/ LoopInputRaises
    \/ LoopQueryReturns
    \/ LoopQueryRaises

SpecLoop == InitLoop /\ [][NextLoop]_vars

\* the lines of Lines that are 'quit' once stripped, whatever their case
QuitLines ==
    {<<"q", "u", "i", "t">>,
     <<"Q", "U", "I", "T">>,
     <<" ", "Q", "u", "i", "t", "\t">>}

\* the line without the blanks around it
Stripped(line) ==
    IF line = <<" ", "Q", "u", "i", "t", "\t">> THEN <<"Q", "u", "i", "t">>
    ELSE IF line = <<" ">> THEN <<>>
    ELSE line

\* C34: chat_loop ends only when the stripped input is 'quit' in any case,
\* and process_query is not called for such an input; for every other
\* input process_query is called exactly once, with the stripped line, and
\* when it raises the loop does not end: it reads the next line.
C34_LoopEndsOnlyOnQuit ==
    pc = "chat_loop" =>
        /\ \A k \in 1..Len(loop.history) :
             LET e == loop.history[k] IN
             IF e.line \in QuitLines
             THEN /\ e.calls = <<>>
                  /\ k = Len(loop.history)
                  /\ loop.pc = "ended"
             ELSE /\ e.calls = <<Stripped(e.line)>>
                  /\ (k = Len(loop.history) => loop.pc # "ended")
                  /\ (e.outcome = "raised" /\ k = Len(loop.history))
                        => loop.pc = "input"
        /\ loop.pc = "ended" =>
             /\ Len(loop.history) > 0
             /\ loop.history[Len(loop.history)].line \in QuitLines

\* a query raised, the next line was read, and the loop ended on ' Quit'
C34_Witness ==
    /\ pc = "chat_loop"
    /\ loop.pc = "ended"
    /\ Len(loop.history) = 3
    /\ loop.history[1].outcome = "raised"
    /\ loop.history[2].outcome = "returned"
    /\ loop.history[3].line = <<" ", "Q", "u", "i", "t", "\t">>

----------------------------------------------------------------------------
(* The train production tool server *)

\* call_tool requests the server answers in one run
MaxServerCalls == 2

\* the names of the Tool objects list_tools returns, in list order
list_tools ==
    <<"get_project_overview", "get_project_phases",
      "search_similar_projects", "get_phase_statistics",
      "build_project_skeleton", "get_commitments_summary">>

\* the methods of TrainProductionServer that implement a tool
Handlers ==
    {"get_project_overview", "get_project_phases", "search_similar_projects",
     "get_phase_statistics", "build_project_skeleton",
     "get_commitments_summary"}

\* no handler was called
NotDispatched == "<no handler>"

\* names a client may send to call_tool
CallNames ==
    Range(list_tools) \cup {NoSuchTool, "Get_Project_Overview", "list_tools"}

\* how a handler ends: it reads its arguments, queries the database and
\* returns one TextContent; a missing argument raises before the first query
HandlerEnds == {"rows", "no rows", "KeyError"}

\* mutant of dispatch: the last elif branch is missing
dispatch_short(name) ==
    IF name = "get_project_overview" THEN "get_project_overview"
    ELSE IF name = "get_project_phases" THEN "get_project_phases"
    ELSE IF name = "search_similar_projects" THEN "search_similar_projects"
    ELSE IF name = "get_phase_statistics" THEN "get_phase_statistics"
    ELSE IF name = "build_project_skeleton" THEN "build_project_skeleton"
    ELSE NotDispatched

\* the if/elif chain of call_tool: the handler the name is routed to
dispatch(name) ==
    IF name = "get_project_overview" THEN "get_project_overview"
    ELSE IF name = "get_project_phases" THEN "get_project_phases"
    ELSE IF name = "search_similar_projects" THEN "search_similar_projects"
    ELSE IF name = "get_phase_statistics" THEN "get_phase_statistics"
    ELSE IF name = "build_project_skeleton" THEN "build_project_skeleton"
    ELSE IF name = "get_commitments_summary" THEN "get_commitments_summary"
    ELSE NotDispatched

\* call_tool(name, arguments) with a handler that ends with `ends`
server_call_tool(name, ends) ==
    LET handler == dispatch(name) IN
    IF handler = NotDispatched
    THEN [name |-> name, handler |-> NotDispatched, db |-> FALSE,
          raised |-> "ValueError: Unknown tool: " \o name]
    ELSE [name |-> name, handler |-> handler, db |-> ends # "KeyError",
          raised |-> IF ends = "KeyError" THEN "KeyError" ELSE PyNone]

\* the server after _register_tools
NoServerCalls == [listed |-> <<>>, calls |-> <<>>]

\* a client asks for the tool list
ServerListTools ==
    /\ pc = "server"
    /\ tool_server.listed = <<>>
    /\ tool_server' = [tool_server EXCEPT !.listed = list_tools]
    /\ UNCHANGED <<orchVars, registryVars, turnFirstId, resourceVars, rest,
                   log, ex, twin, loop, papers_dir>>

\* a client calls a tool
ServerCallTool ==
    /\ pc = "server"
    /\ Len(tool_server.calls) < MaxServerCalls
    /\ \E name \in CallNames, ends \in HandlerEnds :
         tool_server' = [tool_server EXCEPT
                           !.calls = Append(@, server_call_tool(name, ends))]
    /\ UNCHANGED <<orchVars, registryVars, turnFirstId, resourceVars, rest,
                   log, ex, twin, loop, papers_dir>>

InitServer ==
    /\ variant = "Agent"
    /\ pc = "server"
    /\ messages = <<>>
    /\ conversation_history = <<>>
    /\ request = NoRequest
    /\ response = NoResponse
    /\ i = 0
    /\ outcome = NoOutcome
    /\ stdout = <<>>
    /\ nextId = 1
    /\ turns = 0
    /\ sessions = <<>>
    /\ available_tools = <<>>
    /\ tool_to_session = <<>>
    /\ origins = <<>>
    /\ exit_stack = <<>>
    /\ connected = 0
    /\ turnFirstId = 1
    /\ opened = <<>>
    /\ closed = <<>>
    /\ log = NoLog
    /\ rest = <<>>
    /\ ex = NoExec
    /\ twin = <<>>
    /\ loop = <<>>
    /\ tool_server = NoServerCalls
    /\ papers_dir = <<>>

NextServer ==
    \/ ServerListTools
    \/ ServerCallTool

SpecServer == InitServer /\ [][NextServer]_vars

\* C35: the names list_tools publishes are the names call_tool routes to a
\* handler: a call with a published name goes to the handler of that name,
\* and a call with any other name raises ValueError('Unknown tool: <name>')
\* and calls no handler and not the database.
C35_PublishedNamesAreDispatched ==
    pc = "server" =>
        /\ tool_server.listed \in {<<>>, list_tools}
        /\ Cardinality(Range(list_tools)) = Len(list_tools)
        /\ \A k \in 1..Len(tool_server.calls) :
             LET c == tool_server.calls[k] IN
             IF c.name \in Range(list_tools)
             THEN /\ c.handler = c.name
                  /\ c.handler \in Handlers
                  /\ c.raised \in {PyNone, "KeyError"}
             ELSE /\ c.handler = NotDispatched
                  /\ ~ c.db
                  /\ c.raised = "ValueError: Unknown tool: " \o c.name

\* the list was published; its last tool was called and reached its
\* handler, and a name that differs from a published one in case only was
\* turned down
C35_Witness ==
    /\ pc = "server"
    /\ tool_server.listed = list_tools
    /\ Len(tool_server.calls) = 2
    /\ tool_server.calls[1].name = list_tools[6]
    /\ tool_server.calls[1].db
    /\ tool_server.calls[2].name = "Get_Project_Overview"
    /\ tool_server.calls[2].handler = NotDispatched

----------------------------------------------------------------------------
(* L3: the arXiv tools and the files under PAPER_DIR *)

\* calls of search_papers and extract_info in one run
MaxPaperCalls == 3

\* topics the LLM may pass to search_papers, as character sequences
Topics ==
    {<<"t", "i">>,
     <<"T", "i">>,
     <<"t", " ", "i">>,
     <<"t", "_", "i">>,
     <<"t", "/", "i">>}

\* short ids of papers
PaperIds == {"p1", "p2", "p3"}

\* what the arXiv search may give back: the short ids of the papers found
ResultLists == {<<>>, <<"p1">>, <<"p2">>, <<"p1", "p2">>}

\* str.replace(" ", "_")
replace_blanks(s) == [k \in 1..Len(s) |-> IF s[k] = " " THEN "_" ELSE s[k]]

\* the position of the first path separator of s, 0 when there is none
FirstSeparator(s) ==
    IF \E k \in 1..Len(s) : s[k] = "/"
    THEN CHOOSE k \in 1..Len(s) :
             s[k] = "/" /\ \A j \in 1..(k - 1) : s[j] # "/"
    ELSE 0

RECURSIVE Components(_)
\* the directory names a relative path consists of
Components(s) ==
    LET k == FirstSeparator(s) IN
    IF k = 0 THEN <<s>>
    ELSE <<SubSeq(s, 1, k - 1)>> \o Components(SubSeq(s, k + 1, Len(s)))

\* os.path.join(PAPER_DIR, topic.lower().replace(" ", "_")), as the
\* directories below PAPER_DIR
TopicPath(topic) == Components(replace_blanks(lower(topic)))

\* the paper_info dict of a paper, as json.dumps(..., indent=2) writes it
PaperInfo(id) == "{\n  \"title\": \"title of " \o id \o "\"\n}"

\* f"There's no saved information related to paper {paper_id}."
NotFoundMessage(id) ==
    "There's no saved information related to paper " \o id \o "."

\* os.makedirs(path, exist_ok=True): PAPER_DIR and every directory down to
\* path
makedirs(dirs, path) ==
    dirs \cup { SubSeq(path, 1, k) : k \in 0..Len(path) }

\* papers_info after the for-loop: the loaded entries and the papers found
MergedInfo(old, ids) ==
    [id \in DOMAIN old \cup Range(ids) |->
        IF id \in Range(ids) THEN PaperInfo(id) ELSE old[id]]

\* the papers_info.json files extract_info opens: one level below PAPER_DIR
TopicFiles(fs) ==
    { p \in fs.dirs : Len(p) = 1 /\ p \in DOMAIN fs.files }

\* extract_info(paper_id): what it may return, os.listdir giving the
\* directories in any order
extract_info(fs, paper_id) ==
    IF <<>> \notin fs.dirs THEN {Raised("FileNotFoundError")}
    ELSE LET hits == { p \in TopicFiles(fs) : paper_id \in DOMAIN fs.files[p] } IN
         IF hits = {} THEN {Text(NotFoundMessage(paper_id))}
         ELSE { Text(fs.files[p][paper_id]) : p \in hits }

\* a checkout with no papers directory
NoPapers ==
    [dirs |-> {}, files |-> <<>>, stored |-> {}, calls |-> 0,
     last |-> [op |-> "none", id |-> "", result |-> Text("")]]

\* the topic file after search_papers(topic) found ids
FilesAfterSearch(files, path, ids) ==
    [p \in DOMAIN files \cup {path} |->
        IF p = path
        THEN MergedInfo(IF path \in DOMAIN files THEN files[path] ELSE <<>>, ids)
        ELSE files[p]]

\* search_papers(topic) returns the ids of the papers it found
SearchPapers ==
    /\ pc = "papers"
    /\ papers_dir.calls < MaxPaperCalls
    /\ \E topic \in Topics, ids \in ResultLists :
         LET path == TopicPath(topic) IN
         papers_dir' =
             [dirs |-> makedirs(papers_dir.dirs, path),
              files |-> FilesAfterSearch(papers_dir.files, path, ids),
              stored |-> papers_dir.stored \cup Range(ids),
              calls |-> papers_dir.calls + 1,
              last |-> [op |-> "search_papers", id |-> "",
                        result |-> Text(Join(", ", ids))]]
    /\ UNCHANGED <<orchVars, registryVars, turnFirstId, resourceVars, rest,
                   log, ex, twin, loop, tool_server>>

\* the arXiv request of search_papers fails: the directory was made, the
\* topic file is not written
SearchPapersFails ==
    /\ pc = "papers"
    /\ papers_dir.calls < MaxPaperCalls
    /\ \E topic \in Topics :
         papers_dir' =
             [papers_dir EXCEPT
                !.dirs = makedirs(@, TopicPath(topic)),
                !.calls = @ + 1,
                !.last = [op |-> "search_papers", id |-> "",
                          result |-> Raised("HTTPError")]]
    /\ UNCHANGED <<orchVars, registryVars, turnFirstId, resourceVars, rest,
                   log, ex, twin, loop, tool_server>>

\* extract_info(paper_id); main has called search_papers before
ExtractInfo ==
    /\ pc = "papers"
    /\ 0 < papers_dir.calls
    /\ papers_dir.calls < MaxPaperCalls
    /\ \E id \in PaperIds :
         \E res \in extract_info(papers_dir, id) :
           papers_dir' =
               [papers_dir EXCEPT
                  !.calls = @ + 1,
                  !.last = [op |-> "extract_info", id |-> id, result |-> res]]
    /\ UNCHANGED <<orchVars, registryVars, turnFirstId, resourceVars, rest,
                   log, ex, twin, loop, tool_server>>

InitPapers ==
    /\ variant = "L3"
    /\ pc = "papers"
    /\ messages = <<>>
    /\ conversation_history = <<>>
    /\ request = NoRequest
    /\ response = NoResponse
    /\ i = 0
    /\ outcome = NoOutcome
    /\ stdout = <<>>
    /\ nextId = 1
    /\ turns = 0
    /\ sessions = <<>>
    /\ available_tools = LocalTools
    /\ tool_to_session = <<>>
    /\ origins = <<>>
    /\ exit_stack = <<>>
    /\ connected = 0
    /\ turnFirstId = 1
    /\ opened = <<>>
    /\ closed = <<>>
    /\ log = NoLog
    /\ rest = <<>>
    /\ ex = NoExec
    /\ twin = <<>>
    /\ loop = <<>>
    /\ tool_server = <<>>
    /\ papers_dir = NoPapers

NextPapers ==
    \/ SearchPapers
    \/ SearchPapersFails
    \/ ExtractInfo

SpecPapers == InitPapers /\ [][NextPapers]_vars

\* C36: extract_info(id) of an id that a search_papers call returned gives
\* the stored paper information and not the not-found message; what
\* earlier calls stored stays stored (the topic file is merged); and
\* extract_info of an id that was never stored gives the not-found message.
C36_SearchThenExtractRoundTrip ==
    pc = "papers" =>
        /\ \A id \in papers_dir.stored :
             \E p \in DOMAIN papers_dir.files :
                 id \in DOMAIN papers_dir.files[p]
        /\ papers_dir.last.op = "extract_info" =>
             papers_dir.last.result =
                 IF papers_dir.last.id \in papers_dir.stored
                 THEN Text(PaperInfo(papers_dir.last.id))
                 ELSE Text(NotFoundMessage(papers_dir.last.id))

\* no topic was stored below a nested directory
FlatTopicsOnly == \A p \in DOMAIN papers_dir.files : Len(p) = 1

\* the round trip for topics that name one directory
RoundTripOfFlatTopics == FlatTopicsOnly => C36_SearchThenExtractRoundTrip
====
